---- MODULE Spec2Model ----
(***************************************************************************)
(* Model of tools/actioninjector.v2/internal/cmd/inject.go: the pacing     *)
(* loop and its elastic worker pool (injectProcess, inject), the           *)
(* submission units spawned per token (the closure in inject, with         *)
(* pickAction, transferCaller and executionCaller), the nonce cache        *)
(* p.nonces and the periodic resynchronisation (syncNoncesProcess,         *)
(* syncNonces), and the command's lifetime (func inject).                  *)
(*                                                                         *)
(* Every goroutine is a process with a program counter; one action is one  *)
(* atomic step of one goroutine.  p.nonces.Get and p.nonces.Set are two    *)
(* separate steps, each atomic on its own (ttl.Cache locks per call).      *)
(* Time is a discrete clock `now`; a sleep or a timer may end at its due   *)
(* time or later, never earlier.                                           *)
(***************************************************************************)
EXTENDS Integers, Sequences, FiniteSets, TLC

\* ---------------------------------------------------------------- bounds
\* number of tokens the pacing loop may hand off in a run
MaxCount == 2
\* number of inject workers (seed workers and spawned ones) in a run
MaxWorkers == 2
\* last instant of the clock
MaxTime == 2
\* number of accounts in p.accounts
NumAccounts == 2
\* operations per account the history variable opLog keeps
OpWindow == 4

\* ----------------------------------------------------- configuration sets
\* time.Second in clock units
Second == 2
\* the configurations of a run: --aps, --workers, --retry-num, --check-recipt,
\* --action-type ("other" stands for any unknown string), and --duration and
\* --reset-interval in clock units (9: no tick of the reset ticker falls within
\* the run)
Configs ==
    { [aps |-> 2, workers |-> 1, retryNum |-> 1, checkReceipt |-> FALSE,
       actionType |-> "mixed", duration |-> 2, resetInterval |-> 2],
      [aps |-> 1, workers |-> 0, retryNum |-> 2, checkReceipt |-> TRUE,
       actionType |-> "other", duration |-> 2, resetInterval |-> 9] }
\* attempts of one Retry the remote's answers are drawn for
MaxAttempts == 4
\* pending nonces the remote may report for an account
PendingNonces == {1, 42}

Accounts == 1..NumAccounts

\* p.nonces after newInjectionProcessor: the startup syncNonces (line 104) has
\* stored the remote's pending nonce of every account
InitNonces == {[a \in Accounts |-> 1]}

VARIABLES
    injectCfg,    \* the parsed configuration (set once by func inject)
    now,          \* the clock
    ctxDone,      \* ctx.Done() of the lifetime context is closed
    proc,         \* "running", or how the process ended
    pacerPc,      \* position of injectProcess
    began,        \* injectProcess: began
    count,        \* injectProcess: count
    ticksClosed,  \* close(ticks) has run
    workers,      \* the inject goroutines, in spawn order
    units,        \* the running submission units (go func in inject), in spawn order
    spawnLog,     \* history: the tokens for which a unit was started, in order
    outcome,      \* history: how the latest Retry of a unit ended
    issued,       \* history: per account, the nonces handed to actions, in order
    nonces,       \* p.nonces
    syncPc,       \* position of syncNoncesProcess
    addrPool,     \* syncNonces: the addresses of the pass still to refresh
    resetNext,    \* reset (time.Ticker): time of its next tick
    opLog,        \* history: per account, the latest operations on its cache entry
    recvLog       \* history: the tokens received from ticks, in order

vars == <<injectCfg, now, ctxDone, proc, pacerPc, began, count, ticksClosed,
          workers, units, spawnLog, outcome, issued, nonces, syncPc, addrPool, resetNext,
          opLog, recvLog>>

clockVars  == <<now, ctxDone>>
engineVars == <<pacerPc, began, count, ticksClosed, workers, recvLog>>
nonceVars  == <<nonces, opLog, issued>>
syncVars   == <<syncPc, addrPool, resetNext>>

Running == proc = "running"

\* line 217: interval := uint64(time.Second.Nanoseconds() / int64(injectCfg.aps))
Interval == Second \div injectCfg.aps

\* line 220: next := began.Add(time.Duration(count * interval))
NextSend == began + count * Interval

\* the workers blocked in `for range ticks`, ready to receive
ReadyWorkers == {w \in DOMAIN workers : workers[w].pc = "recv"}

\* all orders in which Keys() may list the accounts
KeyOrders ==
    {s \in [1..NumAccounts -> Accounts] : \A i, j \in 1..NumAccounts : i # j => s[i] # s[j]}

NoOutcome ==
    [stage |-> "none", attempts |-> 0, err |-> FALSE, logs |-> 0, returned |-> FALSE]

NewWorker == [pc |-> "start", tok |-> 0]

\* early (history): the unit was started before the lifetime signal fired
NewUnit(tok) ==
    [pc |-> "pick", kind |-> "none", sender |-> 0, nonce |-> 0, sent |-> FALSE, tok |-> tok,
     early |-> ~ctxDone]

\* the state when func inject has parsed one of the configurations cfgs and
\* built the processor
InitWith(cfgs) ==
    /\ injectCfg \in cfgs
    /\ now = 0
    /\ ctxDone = FALSE
    /\ proc = "running"
    /\ pacerPc = "start"
    /\ began = 0
    /\ count = 0
    /\ ticksClosed = FALSE
    /\ workers = <<>>
    /\ units = <<>>
    /\ spawnLog = <<>>
    /\ outcome = NoOutcome
    /\ issued = [a \in Accounts |-> <<>>]
    /\ nonces \in InitNonces
    /\ syncPc = "start"
    /\ addrPool = <<>>
    /\ resetNext = 0
    /\ opLog = [a \in Accounts |-> <<>>]
    /\ recvLog = <<>>

Init == InitWith(Configs)

\* ------------------------------------------------------------ the clock
clockTick ==
    /\ Running
    /\ now < MaxTime
    /\ now' = now + 1
    /\ UNCHANGED <<injectCfg, ctxDone, proc, engineVars, units, spawnLog, outcome, nonceVars, syncVars>>

\* context.WithTimeout(context.Background(), injectCfg.duration)
ctxTimeout ==
    /\ Running
    /\ ~ctxDone
    /\ now >= injectCfg.duration
    /\ ctxDone' = TRUE
    /\ UNCHANGED <<injectCfg, now, proc, engineVars, units, spawnLog, outcome, nonceVars, syncVars>>

\* func inject: <-ctx.Done(); return "" -- the command's Run returns and the
\* process ends, whatever the goroutines are doing
injectReturn ==
    /\ Running
    /\ ctxDone
    /\ proc' = "exited"
    /\ UNCHANGED <<injectCfg, clockVars, engineVars, units, spawnLog, outcome, nonceVars, syncVars>>

\* ------------------------------------------------------- injectProcess
injectProcessStart ==
    /\ Running
    /\ pacerPc = "start"
    /\ workers' = [i \in 1..injectCfg.workers |-> NewWorker]
    /\ began' = now
    /\ count' = 0
    /\ pacerPc' = "sleep"
    /\ UNCHANGED <<injectCfg, clockVars, proc, ticksClosed, recvLog, units, spawnLog, outcome, nonceVars, syncVars>>

\* a sleep that may return before its time has come
injectProcessSleepEarly ==
    /\ Running
    /\ pacerPc = "sleep"
    /\ pacerPc' = "select"
    /\ UNCHANGED <<injectCfg, clockVars, proc, began, count, ticksClosed, workers, recvLog,
                   units, spawnLog, outcome, nonceVars, syncVars>>

\* time.Sleep(next.Sub(now)): returns at once when next is not after now
injectProcessSleep ==
    /\ Running
    /\ pacerPc = "sleep"
    /\ now >= NextSend
    /\ pacerPc' = "select"
    /\ UNCHANGED <<injectCfg, clockVars, proc, began, count, ticksClosed, workers, recvLog,
                   units, spawnLog, outcome, nonceVars, syncVars>>

\* case <-ctx.Done(): return
selectDoneReady == ctxDone

selectDone ==
    /\ Running
    /\ pacerPc = "select"
    /\ selectDoneReady
    /\ pacerPc' = "close"
    /\ UNCHANGED <<injectCfg, clockVars, proc, began, count, ticksClosed, workers, recvLog,
                   units, spawnLog, outcome, nonceVars, syncVars>>

\* case ticks <- count: the workers the send can rendezvous with
selectSendReady == ReadyWorkers

\* a channel that hands the value to every worker waiting on it
ReceiversAll(w) == ReadyWorkers

\* ticks is unbuffered: the value sent to worker w is received by w alone
Receivers(w) == {w}

\* case ticks <- count: count++ (cap: the number of tokens a run of the model
\* hands off)
ticksSend(w, cap) ==
    /\ Running
    /\ pacerPc = "select"
    /\ w \in selectSendReady
    /\ count < cap
    /\ workers' = [v \in DOMAIN workers |->
                     IF v \in Receivers(w) THEN [pc |-> "spawn", tok |-> count] ELSE workers[v]]
    /\ recvLog' = recvLog \o [i \in 1..Cardinality(Receivers(w)) |-> count]
    /\ count' = count + 1
    /\ pacerPc' = "sleep"
    /\ UNCHANGED <<injectCfg, clockVars, proc, began, ticksClosed, units, spawnLog, outcome, nonceVars, syncVars>>

selectSend(w) == ticksSend(w, MaxCount)

\* a select without a default case
selectDefaultNever == FALSE

\* default: taken only when no other case can proceed
selectDefaultReady == ~selectDoneReady /\ selectSendReady = {}

\* a default case that gives the tick up: the count moves on without a handoff
selectDefaultDrop ==
    /\ Running
    /\ pacerPc = "select"
    /\ selectDefaultReady
    /\ Len(workers) < MaxWorkers
    /\ count < MaxCount
    /\ workers' = Append(workers, NewWorker)
    /\ count' = count + 1
    /\ pacerPc' = "sleep"
    /\ UNCHANGED <<injectCfg, clockVars, proc, began, ticksClosed, recvLog,
                   units, spawnLog, outcome, nonceVars, syncVars>>

\* default: workers.Add(1); go p.inject(&workers, ticks)
selectDefault ==
    /\ Running
    /\ pacerPc = "select"
    /\ selectDefaultReady
    /\ Len(workers) < MaxWorkers
    /\ workers' = Append(workers, NewWorker)
    /\ pacerPc' = "sleep"
    /\ UNCHANGED <<injectCfg, clockVars, proc, began, count, ticksClosed, recvLog,
                   units, spawnLog, outcome, nonceVars, syncVars>>

\* defer close(ticks)
injectProcessClose ==
    /\ Running
    /\ pacerPc = "close"
    /\ ticksClosed' = TRUE
    /\ pacerPc' = "wait"
    /\ UNCHANGED <<injectCfg, clockVars, proc, began, count, workers, recvLog,
                   units, spawnLog, outcome, nonceVars, syncVars>>

\* an injectProcess that returns without waiting for its workers
injectProcessNoWait ==
    /\ Running
    /\ pacerPc = "wait"
    /\ pacerPc' = "done"
    /\ UNCHANGED <<injectCfg, clockVars, proc, began, count, ticksClosed, workers, recvLog,
                   units, spawnLog, outcome, nonceVars, syncVars>>

\* defer workers.Wait()
injectProcessWait ==
    /\ Running
    /\ pacerPc = "wait"
    /\ \A w \in DOMAIN workers : workers[w].pc = "done"
    /\ pacerPc' = "done"
    /\ UNCHANGED <<injectCfg, clockVars, proc, began, count, ticksClosed, workers, recvLog,
                   units, spawnLog, outcome, nonceVars, syncVars>>

\* -------------------------------------------------------------- inject
\* the goroutine is scheduled and reaches `for range ticks`
injectStart(w) ==
    /\ Running
    /\ workers[w].pc = "start"
    /\ workers' = [workers EXCEPT ![w].pc = "recv"]
    /\ UNCHANGED <<injectCfg, clockVars, proc, pacerPc, began, count, ticksClosed, recvLog,
                   units, spawnLog, outcome, nonceVars, syncVars>>

\* the units one received token makes the worker start
SpawnedUnits(tok) == <<NewUnit(tok)>>

\* a worker that runs the unit itself and is busy until the unit has finished
injectSpawnInline(w) ==
    /\ Running
    /\ workers[w].pc = "spawn"
    /\ units' = units \o SpawnedUnits(workers[w].tok)
    /\ spawnLog' = spawnLog \o [i \in 1..Len(SpawnedUnits(workers[w].tok)) |-> workers[w].tok]
    /\ workers' = [workers EXCEPT ![w] = [pc |-> "busy", tok |-> workers[w].tok]]
    /\ UNCHANGED <<injectCfg, clockVars, proc, pacerPc, began, count, ticksClosed, recvLog, outcome,
                   nonceVars, syncVars>>

\* go func() {...}(): the worker starts the unit and goes back to the range
injectSpawn(w) ==
    /\ Running
    /\ workers[w].pc = "spawn"
    /\ units' = units \o SpawnedUnits(workers[w].tok)
    /\ spawnLog' = spawnLog \o [i \in 1..Len(SpawnedUnits(workers[w].tok)) |-> workers[w].tok]
    /\ workers' = [workers EXCEPT ![w] = [pc |-> "recv", tok |-> 0]]
    /\ UNCHANGED <<injectCfg, clockVars, proc, pacerPc, began, count, ticksClosed, recvLog, outcome,
                   nonceVars, syncVars>>

\* `for range ticks` ends on the closed channel; defer workers.Done()
injectExit(w) ==
    /\ Running
    /\ workers[w].pc = "recv"
    /\ ticksClosed
    /\ workers' = [workers EXCEPT ![w].pc = "done"]
    /\ UNCHANGED <<injectCfg, clockVars, proc, pacerPc, began, count, ticksClosed, recvLog,
                   units, spawnLog, outcome, nonceVars, syncVars>>

\* ------------------------------------------------- the submission unit
\* pickAction: the callers the configured action type may select
pickAction ==
    CASE injectCfg.actionType = "transfer"  -> {"transfer"}
      [] injectCfg.actionType = "execution" -> {"execution"}
      [] injectCfg.actionType = "mixed"     -> {"transfer", "execution"}
      [] OTHER                              -> {"transfer"}

\* a caller that writes the value it read back unchanged
NextNonceStale(nonce) == nonce

\* lines 292, 320: the value written back, p.nonces.Set(sender.EncodedAddr, nonce+1)
NextNonce(nonce) == nonce + 1

\* the history keeps the latest OpWindow operations of each account
Latest(log) == IF Len(log) > OpWindow THEN Tail(log) ELSE log

LogOp(a, op, u, v) ==
    [opLog EXCEPT ![a] = Latest(Append(@, [op |-> op, unit |-> u, val |-> v]))]

\* lines 288-291, 316-319: pick a sender, read its cached nonce
callerGet(u, kind) ==
    /\ Running
    /\ units[u].pc = "pick"
    /\ kind \in pickAction
    /\ \E s \in Accounts :
        /\ units' = [units EXCEPT ![u] = [@ EXCEPT !.pc = "set", !.kind = kind,
                                             !.sender = s, !.nonce = nonces[s]]]
        /\ opLog' = LogOp(s, "get", units[u].tok, nonces[s])
        /\ issued' = [issued EXCEPT ![s] = Append(@, nonces[s])]
    /\ UNCHANGED <<injectCfg, clockVars, proc, engineVars, spawnLog, outcome, nonces, syncVars>>

\* lines 292, 320: write nonce+1 back; the caller is built with SetNonce(nonce)
callerSet(u, kind) ==
    /\ Running
    /\ units[u].pc = "set"
    /\ units[u].kind = kind
    /\ nonces' = [nonces EXCEPT ![units[u].sender] = NextNonce(units[u].nonce)]
    /\ opLog' = LogOp(units[u].sender, "set", units[u].tok, NextNonce(units[u].nonce))
    /\ units' = [units EXCEPT ![u] = [@ EXCEPT !.pc = "send", !.kind = "none"]]
    /\ UNCHANGED issued
    /\ UNCHANGED <<injectCfg, clockVars, proc, engineVars, spawnLog, outcome, syncVars>>

transferCallerGet(u)  == callerGet(u, "transfer")
transferCallerSet(u)  == callerSet(u, "transfer")
executionCallerGet(u) == callerGet(u, "execution")
executionCallerSet(u) == callerSet(u, "execution")

\* a retry limit that stops one attempt late
BackOffStopLate(numTries) == injectCfg.retryNum < numTries

\* backoff.WithMaxRetries(b, retryNum).NextBackOff() returns Stop
BackOffStop(numTries) == injectCfg.retryNum <= numTries

\* the remote's answers to the successive attempts of one Retry: the first k
\* attempts fail and the later ones succeed (k = MaxAttempts: every attempt fails)
Answers == {[i \in 1..MaxAttempts |-> i > k] : k \in 0..MaxAttempts}

\* backoff.Retry(op, bo): bo.Reset(), then op is called until it succeeds or
\* NextBackOff returns Stop; attempts counts the calls of op
RECURSIVE RetryFrom(_, _, _)
RetryFrom(answers, attempt, numTries) ==
    IF attempt > MaxAttempts \/ answers[attempt]
    THEN [attempts |-> attempt, err |-> FALSE]
    ELSE IF BackOffStop(numTries)
         THEN [attempts |-> attempt, err |-> TRUE]
         ELSE RetryFrom(answers, attempt + 1, numTries + 1)

Retry(answers) == RetryFrom(answers, 1, 0)

\* the sequence without its u-th element
Remove(seq, u) == [i \in 1..(Len(seq) - 1) |-> IF i < u THEN seq[i] ELSE seq[i + 1]]

\* lines 243-253: the send with its retries; a Retry that gave up is logged
\* (line 248); without checkReceipt the closure then returns
send(u) ==
    /\ Running
    /\ units[u].pc = "send"
    /\ \E answers \in Answers :
        LET r == Retry(answers) IN
        /\ outcome' = [stage |-> "send", attempts |-> r.attempts,
                       err |-> r.err, logs |-> IF r.err THEN 1 ELSE 0,
                       returned |-> ~injectCfg.checkReceipt]
        /\ units' = IF injectCfg.checkReceipt
                    THEN [units EXCEPT ![u] = [@ EXCEPT !.pc = "receipt", !.sent = ~r.err]]
                    ELSE Remove(units, u)
    /\ UNCHANGED <<injectCfg, clockVars, proc, engineVars, spawnLog, nonceVars, syncVars>>

\* how the process stands after the receipt's Retry gave up: line 260 logs, and
\* line 262 reads response.ReceiptInfo with response still nil
ReceiptGaveUp == "panic"

\* lines 253-264: the confirmation delay, the receipt poll with its retries
\* (the same bo, reset by Retry) and the status check; then the closure returns
receipt(u) ==
    /\ Running
    /\ units[u].pc = "receipt"
    /\ \E answers \in Answers, status \in {0, 1} :
        LET r == Retry(answers)
            sendLogs == IF units[u].sent THEN 0 ELSE 1
        IN
        IF r.err
        THEN /\ outcome' = [stage |-> "receipt", attempts |-> r.attempts,
                            err |-> TRUE, logs |-> sendLogs + 1, returned |-> FALSE]
             /\ units' = [units EXCEPT ![u].pc = "gaveup"]
             /\ proc' = ReceiptGaveUp
        ELSE /\ outcome' = [stage |-> "receipt", attempts |-> r.attempts,
                            err |-> FALSE,
                            logs |-> sendLogs + (IF status # 1 THEN 1 ELSE 0),
                            returned |-> TRUE]
             /\ units' = Remove(units, u)
             /\ proc' = proc
    /\ UNCHANGED <<injectCfg, clockVars, engineVars, spawnLog, nonceVars, syncVars>>

\* --------------------------------------- syncNoncesProcess, syncNonces
\* reset := time.NewTicker(injectCfg.resetInterval)
syncNoncesProcessStart ==
    /\ Running
    /\ syncPc = "start"
    /\ resetNext' = now + injectCfg.resetInterval
    /\ syncPc' = "select"
    /\ UNCHANGED <<injectCfg, clockVars, proc, engineVars, units, spawnLog, outcome, nonceVars, addrPool>>

\* case <-ctx.Done(): return
syncSelectDone ==
    /\ Running
    /\ syncPc = "select"
    /\ ctxDone
    /\ syncPc' = "done"
    /\ UNCHANGED <<injectCfg, clockVars, proc, engineVars, units, spawnLog, outcome, nonceVars, addrPool,
                   resetNext>>

\* case <-reset.C: a tick is in reset.C once its time has come
syncSelectResetReady == now >= resetNext

\* case <-reset.C: p.syncNonces(...); lines 185-188 snapshot p.nonces.Keys()
syncSelectReset ==
    /\ Running
    /\ syncPc = "select"
    /\ syncSelectResetReady
    /\ resetNext' = resetNext + injectCfg.resetInterval
    /\ addrPool' \in KeyOrders
    /\ syncPc' = "pass"
    /\ UNCHANGED <<injectCfg, clockVars, proc, engineVars, units, spawnLog, outcome, nonceVars>>

\* a pass whose writes all go to the last address of the snapshot
syncNoncesSetLast ==
    /\ Running
    /\ syncPc = "pass"
    /\ addrPool # <<>>
    /\ \E v \in PendingNonces :
        /\ nonces' = [nonces EXCEPT ![addrPool[Len(addrPool)]] = v]
        /\ opLog' = LogOp(addrPool[Len(addrPool)], "overwrite", -1, v)
    /\ UNCHANGED issued
    /\ addrPool' = Tail(addrPool)
    /\ syncPc' = IF Tail(addrPool) = <<>> THEN "select" ELSE "pass"
    /\ UNCHANGED <<injectCfg, clockVars, proc, engineVars, units, spawnLog, outcome, resetNext>>

\* line 195: p.nonces.Set(addr, resp.GetAccountMeta().GetPendingNonce())
syncNoncesSet ==
    /\ Running
    /\ syncPc = "pass"
    /\ addrPool # <<>>
    /\ \E v \in PendingNonces :
        /\ nonces' = [nonces EXCEPT ![Head(addrPool)] = v]
        /\ opLog' = LogOp(Head(addrPool), "overwrite", -1, v)
    /\ UNCHANGED issued
    /\ addrPool' = Tail(addrPool)
    /\ syncPc' = IF Tail(addrPool) = <<>> THEN "select" ELSE "pass"
    /\ UNCHANGED <<injectCfg, clockVars, proc, engineVars, units, spawnLog, outcome, resetNext>>

\* a pass that only logs the failure and goes on to the next address
syncNoncesLogged ==
    /\ Running
    /\ syncPc = "pass"
    /\ addrPool # <<>>
    /\ addrPool' = Tail(addrPool)
    /\ syncPc' = IF Tail(addrPool) = <<>> THEN "select" ELSE "pass"
    /\ UNCHANGED <<injectCfg, clockVars, proc, engineVars, units, spawnLog, outcome, nonceVars, resetNext>>

\* lines 198-202: backoff.Retry gave up; log.L().Fatal ends the process
syncNoncesFatal ==
    /\ Running
    /\ syncPc = "pass"
    /\ addrPool # <<>>
    /\ proc' = "fatal"
    /\ UNCHANGED <<injectCfg, clockVars, engineVars, units, spawnLog, outcome, nonceVars, syncVars>>

\* ---------------------------------------------------------------- Next
Next ==
    \/ clockTick
    \/ ctxTimeout
    \/ injectReturn
    \/ injectProcessStart
    \/ injectProcessSleep
    \/ selectDone
    \/ \E w \in DOMAIN workers : selectSend(w)
    \/ selectDefault
    \/ injectProcessClose
    \/ injectProcessWait
    \/ \E w \in DOMAIN workers : injectStart(w)
    \/ \E w \in DOMAIN workers : injectSpawn(w)
    \/ \E w \in DOMAIN workers : injectExit(w)
    \/ \E u \in DOMAIN units : transferCallerGet(u)
    \/ \E u \in DOMAIN units : transferCallerSet(u)
    \/ \E u \in DOMAIN units : executionCallerGet(u)
    \/ \E u \in DOMAIN units : executionCallerSet(u)
    \/ \E u \in DOMAIN units : send(u)
    \/ \E u \in DOMAIN units : receipt(u)
    \/ syncNoncesProcessStart
    \/ syncSelectDone
    \/ syncSelectReset
    \/ syncNoncesSet
    \/ syncNoncesFatal

Spec == Init /\ [][Next]_vars

\* ============================================================ properties
\* the latest n operations on account a's cache entry
LastOps(a, n) == SubSeq(opLog[a], Len(opLog[a]) - n + 1, Len(opLog[a]))

\* the positions of the operations named op in a window of the history
OpsAt(o, op) == {i \in DOMAIN o : o[i].op = op}

\* the latest four operations on a are two allocations by two different units
\* (each one's Get before its Set), with no overwrite among them
TwoAllocations(a) ==
    /\ Len(opLog[a]) >= 4
    /\ LET o == LastOps(a, 4) IN
        /\ OpsAt(o, "overwrite") = {}
        /\ Cardinality(OpsAt(o, "get")) = 2
        /\ \A i \in OpsAt(o, "get") :
            \E j \in OpsAt(o, "set") : i < j /\ o[j].unit = o[i].unit
        /\ \A i, j \in OpsAt(o, "get") : i # j => o[i].unit # o[j].unit

\* C1: with no overwrite in between, two units that allocate a nonce for the
\* same sender concurrently obtain the distinct nonces v and v+1, v being the
\* cached value before the calls, and leave the cache entry at v+2, under
\* every interleaving of their Get and Set steps.
C1_AllocationsContiguous ==
    \A a \in Accounts :
        TwoAllocations(a) =>
            LET o == LastOps(a, 4)
                v == o[1].val
            IN /\ {o[i].val : i \in OpsAt(o, "get")} = {v, v + 1}
               /\ nonces[a] = v + 2

\* C2: over a whole run, resynchronisation included, the nonces handed to the
\* actions of one sender are strictly increasing in allocation order, so no
\* value is handed out twice.
C2_IssuedIncreasing ==
    \A a \in Accounts :
        \A i, j \in DOMAIN issued[a] : i < j => issued[a][i] < issued[a][j]

\* the latest three operations on a are one allocation and one overwrite with
\* 42, in any order, and no other allocation for a is under way
AllocationAndOverwrite(a) ==
    /\ Len(opLog[a]) >= 3
    /\ LET o == LastOps(a, 3) IN
        /\ \E i \in OpsAt(o, "overwrite") : o[i].val = 42
        /\ \E i \in OpsAt(o, "get") : \E j \in OpsAt(o, "set") :
            i < j /\ o[j].unit = o[i].unit
    /\ \A u \in DOMAIN units : ~(units[u].pc = "set" /\ units[u].sender = a)

\* C3: when the resynchronisation overwrites an account with 42 while one
\* allocation for it is in flight, the cache entry ends at a value a serial
\* execution of the two produces: 43 (overwrite, then allocation) or 42
\* (allocation, then overwrite).
C3_OverwriteSerializable ==
    \A a \in Accounts : AllocationAndOverwrite(a) => nonces[a] \in {42, 43}

\* the latest three operations on a are an overwrite followed at once by one
\* allocation (its Get, then its Set)
OverwriteThenAllocation(a) ==
    /\ Len(opLog[a]) >= 3
    /\ LET o == LastOps(a, 3) IN
        /\ o[1].op = "overwrite"
        /\ o[2].op = "get"
        /\ o[3].op = "set"
        /\ o[3].unit = o[2].unit

\* C4: an overwrite of account a with v followed immediately by one allocation
\* for a makes the allocation return v and leaves the cache entry at v+1.
C4_OverwriteThenAllocate ==
    \A a \in Accounts :
        OverwriteThenAllocation(a) =>
            LET o == LastOps(a, 3) IN
            /\ o[2].val = o[1].val
            /\ nonces[a] = o[1].val + 1

\* an overwrite with 42 has been followed at once by a complete allocation
C4_Witness ==
    \E a \in Accounts : OverwriteThenAllocation(a) /\ LastOps(a, 3)[1].val = 42

RECURSIVE IssuedUpTo(_)
IssuedUpTo(n) == IF n = 0 THEN 0 ELSE Len(issued[n]) + IssuedUpTo(n - 1)

\* the actions built so far: one nonce allocation each
ActionsBuilt == IssuedUpTo(NumAccounts)

Occurrences(seq, x) == Cardinality({i \in DOMAIN seq : seq[i] = x})

\* the workers that hold token t and have not yet started its unit
Holding(t) == {w \in DOMAIN workers : workers[w].pc = "spawn" /\ workers[w].tok = t}

\* C5: every token the pacing loop sends is received by exactly one worker,
\* every received token starts exactly one submission unit, and every unit
\* builds one action with one nonce allocation; the actions built never
\* outnumber the tokens issued, and no token is received twice or lost.
C5_TokenExactlyOnce ==
    /\ recvLog = [i \in 1..count |-> i - 1]
    /\ \A t \in 0..(count - 1) :
        Occurrences(spawnLog, t) + Cardinality(Holding(t)) = 1
    /\ ActionsBuilt = Len(spawnLog) - Cardinality({u \in DOMAIN units : units[u].pc = "pick"})
    /\ ActionsBuilt <= count

\* two tokens were handed off with two workers in the pool, and both actions
\* have been built
C5_Witness ==
    /\ count >= 2
    /\ Len(workers) >= 2
    /\ ActionsBuilt = count

\* the pacing loop stands at its select and some case can proceed (stated below
\* the caps MaxCount and MaxWorkers, which stop the model's run)
C6_NeverBlocked ==
    (Running /\ pacerPc = "select" /\ count < MaxCount /\ Len(workers) < MaxWorkers)
        => ENABLED (selectDone \/ (\E w \in DOMAIN workers : selectSend(w)) \/ selectDefault)

\* the step the pacing loop takes from its select when the signal has not
\* fired and no worker is ready
C6_SpawnsOne ==
    (pacerPc = "select" /\ pacerPc' # "select" /\ ~ctxDone /\ ReadyWorkers = {})
        => /\ workers' = Append(workers, NewWorker)
           /\ count' = count
           /\ recvLog' = recvLog
           /\ pacerPc' = "sleep"

\* C6: when the pacing loop reaches its handoff while the lifetime signal has
\* not fired and no worker is ready, the iteration adds exactly one worker to
\* the pool and the loop goes on; the loop never waits for a worker to become
\* ready.
C6_ElasticPool == []C6_NeverBlocked /\ [][C6_SpawnsOne]_vars

\* a worker has been added to the pool on a failed handoff
C6_Witness ==
    /\ Len(workers) > injectCfg.workers
    /\ pacerPc = "sleep"
    /\ ~ctxDone

\* C7: once the lifetime signal has fired the pacing loop hands off no further
\* token, whether or not a worker is ready to receive.
C7_NoTokenAfterSignal == [][ctxDone => (count' = count /\ recvLog' = recvLog)]_vars

\* the Dispatch Engine is Stopped: ticks is closed, every worker has left its
\* range loop and injectProcess has returned
Stopped ==
    /\ pacerPc = "done"
    /\ ticksClosed
    /\ \A w \in DOMAIN workers : workers[w].pc = "done"

\* C8: after the lifetime signal has fired the Dispatch Engine reaches Stopped
\* (the pacing loop exits, ticks is closed, every worker sees the closed
\* channel and exits, injectProcess returns); the command, which ends the
\* process when it returns after the signal, is therefore never over with the
\* engine short of Stopped.
C8_StoppedBeforeExit == proc = "exited" => Stopped

C10_ReceiptFailureRecovered ==
    (outcome.stage = "receipt" /\ outcome.err) => (outcome.returned /\ proc # "panic")

\* C11: when the Synchronizer's query for an address fails for good (its Retry
\* gives up), the whole run terminates: from then on no token is issued, no
\* nonce is allocated and no action is submitted -- no step of any kind is
\* taken.
C11_SyncFailureTerminates ==
    /\ [][syncNoncesFatal => proc' = "fatal"]_vars
    /\ [](proc = "fatal" => ~ENABLED Next)

\* the run was ended by a failed resynchronisation with the pacing loop still
\* dispatching and a unit between its Get and its send
C11_Witness ==
    /\ proc = "fatal"
    /\ pacerPc \in {"sleep", "select"}
    /\ ~ctxDone
    /\ \E u \in DOMAIN units : units[u].pc \in {"set", "send"}

\* a step of the submission unit u
UnitStep(u) ==
    \/ transferCallerGet(u)
    \/ transferCallerSet(u)
    \/ executionCallerGet(u)
    \/ executionCallerSet(u)
    \/ send(u)
    \/ receipt(u)

\* no step of a unit touches the pacing loop, the pool or the channel
C12_UnitFrame ==
    (\E u \in DOMAIN units : UnitStep(u))
        => UNCHANGED <<pacerPc, began, count, ticksClosed, workers, recvLog, spawnLog>>

\* the worker that starts a unit is back at its receive in the same step, the
\* unit not yet begun
C12_WorkerBack ==
    \A w \in DOMAIN workers :
        injectSpawn(w) => /\ workers'[w].pc = "recv"
                          /\ units'[Len(units')].pc = "pick"

\* a waiting worker can take the token the pacing loop offers, whatever the
\* units in flight are doing
C12_HandoffOpen ==
    \A w \in DOMAIN workers :
        (Running /\ pacerPc = "select" /\ count < MaxCount /\ workers[w].pc = "recv")
            => ENABLED selectSend(w)

C13_UnitsOutliveSignal ==
    proc = "exited" => \A u \in DOMAIN units : ~units[u].early

\* C14: after the lifetime signal has fired the Synchronizer starts no new
\* resynchronisation pass (and its timer loop exits).
C14_NoPassAfterSignal == [][ctxDone => ~(syncPc = "select" /\ syncPc' = "pass")]_vars

\* ------------------------------------------- the dispatch engine on its own
\* tokens the pacing loop may hand off in a run of the engine on its own
PaceCount == 5

\* target rates that divide time.Second (1, 2) and one that does not (3)
PaceConfigs ==
    { [aps |-> r, workers |-> 1, retryNum |-> 1, checkReceipt |-> FALSE,
       actionType |-> "transfer", duration |-> 2, resetInterval |-> 9] : r \in 1..3 }

paceSend(w) == ticksSend(w, PaceCount)

PaceInit == InitWith(PaceConfigs)

\* the pacing loop, its workers and the command's lifetime; the units started
\* are left where they start and the Synchronizer is not run
PaceNext ==
    \/ clockTick
    \/ ctxTimeout
    \/ injectReturn
    \/ injectProcessStart
    \/ injectProcessSleep
    \/ selectDone
    \/ \E w \in DOMAIN workers : paceSend(w)
    \/ selectDefault
    \/ injectProcessClose
    \/ injectProcessWait
    \/ \E w \in DOMAIN workers : injectStart(w)
    \/ \E w \in DOMAIN workers : injectSpawn(w)
    \/ \E w \in DOMAIN workers : injectExit(w)

PaceSpec == PaceInit /\ [][PaceNext]_vars

\* C15: with target rate R per second and a run of D seconds, the number of
\* tokens issued before the lifetime signal is within 1 of R*D; here its upper
\* half, count <= R*D + 1 with R*D = aps * duration / time.Second, which no
\* delay of a worker or of the scheduler can excuse.
C15_TokensWithinTolerance ==
    ~ctxDone => count * Second <= injectCfg.aps * injectCfg.duration + Second

\* the Synchronizer takes its tick: the pass starts from a snapshot that lists
\* every address of the cache exactly once
C16_PassStart ==
    (syncPc = "select" /\ syncPc' = "pass")
        => /\ Len(addrPool') = Cardinality(DOMAIN nonces)
           /\ {addrPool'[i] : i \in DOMAIN addrPool'} = DOMAIN nonces

\* a write of the pass: the entry of the snapshot's next address, and no other,
\* receives a pending nonce reported by the remote, and the pass moves on by
\* that one address
C16_PassWrite ==
    syncNoncesSet
        => /\ addrPool' = Tail(addrPool)
           /\ nonces'[Head(addrPool)] \in PendingNonces
           /\ \A a \in Accounts : a # Head(addrPool) => nonces'[a] = nonces[a]
           /\ opLog'[Head(addrPool)] # <<>>
           /\ opLog'[Head(addrPool)][Len(opLog'[Head(addrPool)])].op = "overwrite"

\* the snapshot is consumed by the writes alone, and the pass is over only when
\* none of its addresses is left (or the process has ended)
C16_PassOrder ==
    /\ (addrPool # <<>> /\ addrPool' # addrPool) => syncNoncesSet
    /\ (syncPc = "pass" /\ syncPc' # "pass") => addrPool' = <<>>

\* C16: each pass of the Synchronizer takes a snapshot of the addresses known
\* to the cache and, for every address of the snapshot, one after the other,
\* overwrites the entry of that address with the pending nonce the remote
\* returned; no address of the snapshot is skipped and none outside it is
\* written by the pass.
C16_PassCoversSnapshot ==
    /\ [][C16_PassStart]_vars
    /\ [][C16_PassWrite]_vars
    /\ [][C16_PassOrder]_vars

\* a pass has run to its end after nonces had been allocated: the latest
\* operation on every account is the pass's overwrite
C16_Witness ==
    /\ syncPc = "select"
    /\ \E a \in Accounts : issued[a] # <<>>
    /\ \A a \in Accounts :
        opLog[a] # <<>> /\ opLog[a][Len(opLog[a])].op = "overwrite"

\* a successful handoff hands over the current count and advances it by one
C17_HandoffAdvances ==
    (\E w \in DOMAIN workers : selectSend(w))
        => /\ count' = count + 1
           /\ recvLog' = Append(recvLog, count)

\* a failed handoff leaves the count, and with it the next token offered and
\* its due time, as they were
C17_FailedHandoffKeeps ==
    selectDefault
        => /\ count' = count
           /\ recvLog' = recvLog
           /\ NextSend' = NextSend

\* the counters received so far are 0, 1, 2, ... in order
C17_ReceivedInOrder == \A i \in DOMAIN recvLog : recvLog[i] = i - 1

\* C17: the dispatch count advances by exactly one on a successful handoff and
\* is left unchanged by a failed one, so the tick is not dropped: the counters
\* the workers receive are 0, 1, 2, ... in order, without gap or repeat, and
\* after a failed handoff the next token offered carries the same counter.
C17_CountTracksHandoffs ==
    /\ [][C17_HandoffAdvances]_vars
    /\ [][C17_FailedHandoffKeeps]_vars
    /\ []C17_ReceivedInOrder

\* two tokens have been received in a run in which a handoff failed and a
\* worker was added
C17_Witness ==
    /\ Len(workers) > injectCfg.workers
    /\ injectCfg.workers > 0
    /\ Len(recvLog) >= 2

\* the token with count n is handed off at began + n*interval or later
C18_HandoffOnTime == (count' = count + 1) => now >= began + count * Interval

\* at time now no more than floor((now - began)/interval) + 1 tokens have been
\* issued (written without the division)
C18_IssuedByNow ==
    (pacerPc # "start" /\ count >= 1) => (count - 1) * Interval <= now - began

\* behind schedule, or on it, the loop's sleep returns at once
C18_NoWaitWhenBehind ==
    (Running /\ pacerPc = "sleep" /\ now >= NextSend) => ENABLED injectProcessSleep

\* C18: the pacing loop never runs ahead of schedule, ready workers or not: the
\* token with dispatch count n is never handed off before began + n*interval,
\* so at time t at most floor((t - began)/interval) + 1 tokens have been
\* issued; a loop that is behind schedule does not sleep at all.
C18_NeverAhead ==
    /\ [][C18_HandoffOnTime]_vars
    /\ []C18_IssuedByNow
    /\ []C18_NoWaitWhenBehind

\* the loop is behind schedule: a token was handed off and the time of the next
\* one has already passed
C18_Witness ==
    /\ pacerPc = "sleep"
    /\ count >= 1
    /\ Interval >= 1
    /\ now > NextSend

\* ticks is closed by the pacing loop once it has left its loop, and stays closed
C19_ClosedAfterLoop == ticksClosed => pacerPc \in {"wait", "done"}

\* on and after the close there is no send and no new worker
C19_QuietAfterClose ==
    (ticksClosed \/ ticksClosed')
        => /\ count' = count
           /\ recvLog' = recvLog
           /\ Len(workers') = Len(workers)

\* injectProcess has returned only with ticks closed and every worker gone
C19_StoppedMeansDrained ==
    pacerPc = "done"
        => ticksClosed /\ \A w \in DOMAIN workers : workers[w].pc = "done"

\* C19: shutdown is ordered: ticks is closed only by the pacing loop after it
\* has stopped sending, so no send and no worker spawn happens on or after the
\* close; the engine is Stopped (injectProcess has returned) only in states
\* where ticks is closed and every worker ever started has exited; units may
\* still be in flight in a Stopped state.
C19_OrderedShutdown ==
    /\ []C19_ClosedAfterLoop
    /\ [][C19_QuietAfterClose]_vars
    /\ []C19_StoppedMeansDrained

\* the engine is Stopped, with two workers gone, while a unit is still in flight
C19_Witness ==
    /\ Stopped
    /\ Len(workers) >= 2
    /\ \E u \in DOMAIN units : units[u].pc \in {"pick", "set", "send", "receipt"}

\* C20: when the send of an action has used up its retries the action is
\* dropped and the unit makes no further remote call for it; a receipt is
\* polled only for an action whose send succeeded.
C20_ReceiptOnlyAfterSend ==
    [][\A u \in DOMAIN units : receipt(u) => units[u].sent]_vars

====
